---- MODULE Spec2Model ----
(***************************************************************************)
(* A model of the payments engine's ledger state machine                   *)
(* (src/src/engine/state.rs): the account mapping, the transaction ledger  *)
(* and State::process_single_command, one action per match arm; and of the *)
(* pipeline that feeds it (src/src/engine/runner.rs, src/src/main.rs): the *)
(* task that reads and decodes rows and sends commands, the bounded        *)
(* channel, and the engine task that receives, applies and exports.        *)
(*                                                                         *)
(* Amounts are rust_decimal::Decimal values in the source.  They are       *)
(* modelled as integers (a count of the smallest unit in play), with exact *)
(* addition, subtraction and comparison; they may be negative or zero,     *)
(* since TransactionInput::to_command forwards any parsed amount.          *)
(***************************************************************************)
EXTENDS Integers, Sequences, FiniteSets, TLC

\* Bounds of the model.
MaxClient == 2
MaxTx == 2
MaxAmount == 2
MaxNegAmount == 1
MaxCmds == 3
MaxRows == 3       \* rows in an input file
MaxRowId == 1      \* client and tx ids appearing in an input file
\* mpsc::channel(1000) and record_count % 1000 in runner.rs: the capacity and
\* the yield period are scaled down so that inputs of MaxRows rows fill the
\* channel and reach a yield.
Capacity == 2
YieldEvery == 2

Clients == 1..MaxClient
Txs == 1..MaxTx
Amounts == (0 - MaxNegAmount)..MaxAmount

VARIABLES
    accounts,      \* State.accounts: client id -> Account
    transactions,  \* State.transactions: tx id -> TransactionRecord
    last,          \* the Command handed to the latest process_single_command call
    outcome,       \* where that call left the match arm
    hist,          \* the commands processed so far (not recorded under Spec)
    rows,          \* the input file: what csv_reader.deserialize() yields, in order
    next_row,      \* index of the row the iterator yields next
    producer,      \* where main is: in send_commands_to_engine, then finalize_engine
    pending,       \* cmd, while cmd_tx.send(cmd) is awaited
    record_count,  \* send_commands_to_engine's record_count
    skipped_count, \* send_commands_to_engine's skipped_count
    chan,          \* the commands buffered in the mpsc channel, oldest first
    closed,        \* cmd_tx, the only Sender, has been dropped
    consumer,      \* where the engine task is in run
    cur,           \* cmd, between rx.recv() returning it and its processing
    exported,      \* the account mapping handed to output_accounts
    exports,       \* number of output_accounts calls
    sent,          \* every command a send has put into the channel, in order
    received       \* every command rx.recv() has returned, in order

pipeVars == <<rows, next_row, producer, pending, record_count, skipped_count,
              chan, closed, consumer, cur, exported, exports, sent, received>>

vars == <<accounts, transactions, last, outcome, hist, rows, next_row,
          producer, pending, record_count, skipped_count, chan, closed,
          consumer, cur, exported, exports, sent, received>>

-----------------------------------------------------------------------------
\* Command values (src/src/models/command.rs)

DepositCmd(client, tx, amount) ==
    [kind |-> "deposit", client_id |-> client, tx |-> tx, amount |-> amount]

WithdrawalCmd(client, tx, amount) ==
    [kind |-> "withdrawal", client_id |-> client, tx |-> tx, amount |-> amount]

DisputeCmd(client, tx) ==
    [kind |-> "dispute", client_id |-> client, tx |-> tx]

ResolveCmd(client, tx) ==
    [kind |-> "resolve", client_id |-> client, tx |-> tx]

ChargebackCmd(client, tx) ==
    [kind |-> "chargeback", client_id |-> client, tx |-> tx]

Command ==
    {DepositCmd(c, t, a) : c \in Clients, t \in Txs, a \in Amounts}
    \cup {WithdrawalCmd(c, t, a) : c \in Clients, t \in Txs, a \in Amounts}
    \cup {DisputeCmd(c, t) : c \in Clients, t \in Txs}
    \cup {ResolveCmd(c, t) : c \in Clients, t \in Txs}
    \cup {ChargebackCmd(c, t) : c \in Clients, t \in Txs}

\* No command processed yet.
NoCommand == [kind |-> "none"]

-----------------------------------------------------------------------------
\* Records and map helpers

\* The Account that entry(client).or_insert_with builds.
NewAccount(client) ==
    [client_id |-> client, available |-> 0, held |-> 0, locked |-> FALSE]

NewRecord(client, amount, isDeposit) ==
    [client_id |-> client, amount |-> amount, is_deposit |-> isDeposit,
     status |-> "Normal"]

\* HashMap::insert / entry: the map with key k bound to v.
Put(map, k, v) ==
    [x \in (DOMAIN map) \cup {k} |-> IF x = k THEN v ELSE map[x]]

\* accounts.get(&client).is_some_and(|acc| acc.locked)
IsLocked(accs, client) ==
    client \in DOMAIN accs /\ accs[client].locked

\* accounts.entry(client).or_insert_with(..): the map after the call.
EntryOrInsert(accs, client) ==
    IF client \in DOMAIN accs THEN accs ELSE Put(accs, client, NewAccount(client))

\* What one call leaves behind: both maps and the place the arm was left.
Result(accs, txs, out) ==
    [accounts |-> accs, transactions |-> txs, outcome |-> out]

-----------------------------------------------------------------------------
\* State::process_single_command, one operator per match arm

\* ProcessDeposit without the duplicate-id check.
ProcessDepositNoDuplicateCheck(accs, txs, client, tx, amount) ==
    IF IsLocked(accs, client)
    THEN Result(accs, txs, "locked")
    ELSE LET created == EntryOrInsert(accs, client)
         IN Result([created EXCEPT ![client].available = @ + amount],
                   Put(txs, tx, NewRecord(client, amount, TRUE)),
                   "applied")

\* ProcessDeposit with the duplicate-id check scoped to the client's own records.
ProcessDepositPerClientDuplicateCheck(accs, txs, client, tx, amount) ==
    IF tx \in DOMAIN txs /\ txs[tx].client_id = client
    THEN Result(accs, txs, "duplicate")
    ELSE IF IsLocked(accs, client)
    THEN Result(accs, txs, "locked")
    ELSE LET created == EntryOrInsert(accs, client)
         IN Result([created EXCEPT ![client].available = @ + amount],
                   Put(txs, tx, NewRecord(client, amount, TRUE)),
                   "applied")

\* ProcessDeposit that looks the account up instead of creating it.
ProcessDepositRequiresAccount(accs, txs, client, tx, amount) ==
    IF tx \in DOMAIN txs
    THEN Result(accs, txs, "duplicate")
    ELSE IF IsLocked(accs, client)
    THEN Result(accs, txs, "locked")
    ELSE IF client \notin DOMAIN accs
    THEN Result(accs, txs, "no_account")
    ELSE Result([accs EXCEPT ![client].available = @ + amount],
                Put(txs, tx, NewRecord(client, amount, TRUE)),
                "applied")

\* ProcessDeposit that credits an existing account only, and records the
\* deposit either way.
ProcessDepositRecordsWithoutAccount(accs, txs, client, tx, amount) ==
    IF tx \in DOMAIN txs
    THEN Result(accs, txs, "duplicate")
    ELSE IF IsLocked(accs, client)
    THEN Result(accs, txs, "locked")
    ELSE Result(IF client \in DOMAIN accs
                THEN [accs EXCEPT ![client].available = @ + amount]
                ELSE accs,
                Put(txs, tx, NewRecord(client, amount, TRUE)),
                "applied")

\* Command::Deposit
ProcessDeposit(accs, txs, client, tx, amount) ==
    IF tx \in DOMAIN txs
    THEN Result(accs, txs, "duplicate")
    ELSE IF IsLocked(accs, client)
    THEN Result(accs, txs, "locked")
    ELSE LET created == EntryOrInsert(accs, client)
         IN Result([created EXCEPT ![client].available = @ + amount],
                   Put(txs, tx, NewRecord(client, amount, TRUE)),
                   "applied")

\* ProcessWithdrawal with the funds check strict (available > amount).
ProcessWithdrawalStrictGuard(accs, txs, client, tx, amount) ==
    IF tx \in DOMAIN txs
    THEN Result(accs, txs, "duplicate")
    ELSE IF IsLocked(accs, client)
    THEN Result(accs, txs, "locked")
    ELSE LET created == EntryOrInsert(accs, client)
         IN IF created[client].available > amount
            THEN Result([created EXCEPT ![client].available = @ - amount],
                        Put(txs, tx, NewRecord(client, amount, FALSE)),
                        "applied")
            ELSE Result(created, txs, "insufficient")

\* ProcessWithdrawal that records the tx id also when the funds are short.
ProcessWithdrawalRecordsRejected(accs, txs, client, tx, amount) ==
    IF tx \in DOMAIN txs
    THEN Result(accs, txs, "duplicate")
    ELSE IF IsLocked(accs, client)
    THEN Result(accs, txs, "locked")
    ELSE LET created == EntryOrInsert(accs, client)
         IN IF created[client].available >= amount
            THEN Result([created EXCEPT ![client].available = @ - amount],
                        Put(txs, tx, NewRecord(client, amount, FALSE)),
                        "applied")
            ELSE Result(created, Put(txs, tx, NewRecord(client, amount, FALSE)),
                        "insufficient")

\* ProcessWithdrawal that debits the account without recording the withdrawal.
ProcessWithdrawalUnrecorded(accs, txs, client, tx, amount) ==
    IF tx \in DOMAIN txs
    THEN Result(accs, txs, "duplicate")
    ELSE IF IsLocked(accs, client)
    THEN Result(accs, txs, "locked")
    ELSE LET created == EntryOrInsert(accs, client)
         IN IF created[client].available >= amount
            THEN Result([created EXCEPT ![client].available = @ - amount],
                        txs, "applied")
            ELSE Result(created, txs, "insufficient")

\* Command::Withdrawal
ProcessWithdrawal(accs, txs, client, tx, amount) ==
    IF tx \in DOMAIN txs
    THEN Result(accs, txs, "duplicate")
    ELSE IF IsLocked(accs, client)
    THEN Result(accs, txs, "locked")
    ELSE LET created == EntryOrInsert(accs, client)
         IN IF created[client].available >= amount
            THEN Result([created EXCEPT ![client].available = @ - amount],
                        Put(txs, tx, NewRecord(client, amount, FALSE)),
                        "applied")
            ELSE Result(created, txs, "insufficient")

\* ProcessDispute without the locked-account check.
ProcessDisputeIgnoresLock(accs, txs, client, tx) ==
    IF tx \notin DOMAIN txs
    THEN Result(accs, txs, "no_record")
    ELSE IF txs[tx].client_id # client
    THEN Result(accs, txs, "mismatch")
    ELSE IF ~txs[tx].is_deposit \/ txs[tx].status # "Normal"
    THEN Result(accs, txs, "wrong_status")
    ELSE LET marked == [txs EXCEPT ![tx].status = "Disputed"]
             amount == txs[tx].amount
         IN IF client \in DOMAIN accs
            THEN Result([accs EXCEPT ![client].available = @ - amount,
                                     ![client].held = @ + amount],
                        marked, "applied")
            ELSE Result(accs, marked, "applied_no_account")

\* ProcessDispute without the status check (any deposit, whatever its status).
ProcessDisputeAnyStatus(accs, txs, client, tx) ==
    IF IsLocked(accs, client)
    THEN Result(accs, txs, "locked")
    ELSE IF tx \notin DOMAIN txs
    THEN Result(accs, txs, "no_record")
    ELSE IF txs[tx].client_id # client
    THEN Result(accs, txs, "mismatch")
    ELSE IF ~txs[tx].is_deposit
    THEN Result(accs, txs, "wrong_status")
    ELSE LET marked == [txs EXCEPT ![tx].status = "Disputed"]
             amount == txs[tx].amount
         IN IF client \in DOMAIN accs
            THEN Result([accs EXCEPT ![client].available = @ - amount,
                                     ![client].held = @ + amount],
                        marked, "applied")
            ELSE Result(accs, marked, "applied_no_account")

\* ProcessDispute without the is_deposit check.
ProcessDisputeAnyKind(accs, txs, client, tx) ==
    IF IsLocked(accs, client)
    THEN Result(accs, txs, "locked")
    ELSE IF tx \notin DOMAIN txs
    THEN Result(accs, txs, "no_record")
    ELSE IF txs[tx].client_id # client
    THEN Result(accs, txs, "mismatch")
    ELSE IF txs[tx].status # "Normal"
    THEN Result(accs, txs, "wrong_status")
    ELSE LET marked == [txs EXCEPT ![tx].status = "Disputed"]
             amount == txs[tx].amount
         IN IF client \in DOMAIN accs
            THEN Result([accs EXCEPT ![client].available = @ - amount,
                                     ![client].held = @ + amount],
                        marked, "applied")
            ELSE Result(accs, marked, "applied_no_account")

\* ProcessDispute that creates the named client's account when it is absent.
ProcessDisputeCreatesAccount(accs, txs, client, tx) ==
    IF IsLocked(accs, client)
    THEN Result(accs, txs, "locked")
    ELSE IF tx \notin DOMAIN txs
    THEN Result(EntryOrInsert(accs, client), txs, "no_record")
    ELSE IF txs[tx].client_id # client
    THEN Result(EntryOrInsert(accs, client), txs, "mismatch")
    ELSE IF ~txs[tx].is_deposit \/ txs[tx].status # "Normal"
    THEN Result(accs, txs, "wrong_status")
    ELSE LET marked == [txs EXCEPT ![tx].status = "Disputed"]
             amount == txs[tx].amount
             created == EntryOrInsert(accs, client)
         IN Result([created EXCEPT ![client].available = @ - amount,
                                   ![client].held = @ + amount],
                   marked, "applied")

\* ProcessDispute that takes the amount out of available without holding it.
ProcessDisputeForgetsHeld(accs, txs, client, tx) ==
    IF IsLocked(accs, client)
    THEN Result(accs, txs, "locked")
    ELSE IF tx \notin DOMAIN txs
    THEN Result(accs, txs, "no_record")
    ELSE IF txs[tx].client_id # client
    THEN Result(accs, txs, "mismatch")
    ELSE IF ~txs[tx].is_deposit \/ txs[tx].status # "Normal"
    THEN Result(accs, txs, "wrong_status")
    ELSE LET marked == [txs EXCEPT ![tx].status = "Disputed"]
             amount == txs[tx].amount
         IN IF client \in DOMAIN accs
            THEN Result([accs EXCEPT ![client].available = @ - amount],
                        marked, "applied")
            ELSE Result(accs, marked, "applied_no_account")

\* Command::Dispute
ProcessDispute(accs, txs, client, tx) ==
    IF IsLocked(accs, client)
    THEN Result(accs, txs, "locked")
    ELSE IF tx \notin DOMAIN txs
    THEN Result(accs, txs, "no_record")
    ELSE IF txs[tx].client_id # client
    THEN Result(accs, txs, "mismatch")
    ELSE IF ~txs[tx].is_deposit \/ txs[tx].status # "Normal"
    THEN Result(accs, txs, "wrong_status")
    ELSE LET marked == [txs EXCEPT ![tx].status = "Disputed"]
             amount == txs[tx].amount
         IN IF client \in DOMAIN accs
            THEN Result([accs EXCEPT ![client].available = @ - amount,
                                     ![client].held = @ + amount],
                        marked, "applied")
            ELSE Result(accs, marked, "applied_no_account")

\* ProcessResolve that credits available but does not release held.
ProcessResolveKeepsHeld(accs, txs, client, tx) ==
    IF IsLocked(accs, client)
    THEN Result(accs, txs, "locked")
    ELSE IF tx \notin DOMAIN txs
    THEN Result(accs, txs, "no_record")
    ELSE IF txs[tx].client_id # client
    THEN Result(accs, txs, "mismatch")
    ELSE IF txs[tx].status # "Disputed"
    THEN Result(accs, txs, "wrong_status")
    ELSE LET marked == [txs EXCEPT ![tx].status = "Normal"]
             amount == txs[tx].amount
         IN IF client \in DOMAIN accs
            THEN Result([accs EXCEPT ![client].available = @ + amount],
                        marked, "applied")
            ELSE Result(accs, marked, "applied_no_account")

\* ProcessResolve without the owner check, releasing the hold on the account
\* of the record's owner.
ProcessResolveOwnerAccount(accs, txs, client, tx) ==
    IF IsLocked(accs, client)
    THEN Result(accs, txs, "locked")
    ELSE IF tx \notin DOMAIN txs
    THEN Result(accs, txs, "no_record")
    ELSE IF txs[tx].status # "Disputed"
    THEN Result(accs, txs, "wrong_status")
    ELSE LET marked == [txs EXCEPT ![tx].status = "Normal"]
             amount == txs[tx].amount
             owner == txs[tx].client_id
         IN IF owner \in DOMAIN accs
            THEN Result([accs EXCEPT ![owner].held = @ - amount,
                                     ![owner].available = @ + amount],
                        marked, "applied")
            ELSE Result(accs, marked, "applied_no_account")

\* Command::Resolve
ProcessResolve(accs, txs, client, tx) ==
    IF IsLocked(accs, client)
    THEN Result(accs, txs, "locked")
    ELSE IF tx \notin DOMAIN txs
    THEN Result(accs, txs, "no_record")
    ELSE IF txs[tx].client_id # client
    THEN Result(accs, txs, "mismatch")
    ELSE IF txs[tx].status # "Disputed"
    THEN Result(accs, txs, "wrong_status")
    ELSE LET marked == [txs EXCEPT ![tx].status = "Normal"]
             amount == txs[tx].amount
         IN IF client \in DOMAIN accs
            THEN Result([accs EXCEPT ![client].held = @ - amount,
                                     ![client].available = @ + amount],
                        marked, "applied")
            ELSE Result(accs, marked, "applied_no_account")

\* ProcessChargeback without the clamp of held at zero.
ProcessChargebackNoClamp(accs, txs, client, tx) ==
    IF tx \notin DOMAIN txs
    THEN Result(accs, txs, "no_record")
    ELSE IF txs[tx].client_id # client \/ txs[tx].status # "Disputed"
    THEN Result(accs, txs,
                IF txs[tx].client_id # client THEN "mismatch" ELSE "wrong_status")
    ELSE IF client \notin DOMAIN accs
    THEN Result(accs, txs, "no_account")
    ELSE IF accs[client].locked
    THEN Result(accs, txs, "locked")
    ELSE LET reduced == accs[client].held - txs[tx].amount
             clamped == reduced
         IN Result([accs EXCEPT ![client].held = clamped,
                                ![client].locked = TRUE],
                   [txs EXCEPT ![tx].status = "ChargedBack"],
                   "applied")

\* ProcessChargeback without the status check.
ProcessChargebackAnyStatus(accs, txs, client, tx) ==
    IF tx \notin DOMAIN txs
    THEN Result(accs, txs, "no_record")
    ELSE IF txs[tx].client_id # client
    THEN Result(accs, txs,
                IF txs[tx].client_id # client THEN "mismatch" ELSE "wrong_status")
    ELSE IF client \notin DOMAIN accs
    THEN Result(accs, txs, "no_account")
    ELSE IF accs[client].locked
    THEN Result(accs, txs, "locked")
    ELSE LET reduced == accs[client].held - txs[tx].amount
             clamped == IF reduced < 0 THEN 0 ELSE reduced
         IN Result([accs EXCEPT ![client].held = clamped,
                                ![client].locked = TRUE],
                   [txs EXCEPT ![tx].status = "ChargedBack"],
                   "applied")

\* ProcessChargeback that does not lock the account.
ProcessChargebackNoLock(accs, txs, client, tx) ==
    IF tx \notin DOMAIN txs
    THEN Result(accs, txs, "no_record")
    ELSE IF txs[tx].client_id # client \/ txs[tx].status # "Disputed"
    THEN Result(accs, txs,
                IF txs[tx].client_id # client THEN "mismatch" ELSE "wrong_status")
    ELSE IF client \notin DOMAIN accs
    THEN Result(accs, txs, "no_account")
    ELSE IF accs[client].locked
    THEN Result(accs, txs, "locked")
    ELSE LET reduced == accs[client].held - txs[tx].amount
             clamped == IF reduced < 0 THEN 0 ELSE reduced
         IN Result([accs EXCEPT ![client].held = clamped,
                                ![client].locked = @],
                   [txs EXCEPT ![tx].status = "ChargedBack"],
                   "applied")

\* ProcessChargeback without the owner check.
ProcessChargebackAnyClient(accs, txs, client, tx) ==
    IF tx \notin DOMAIN txs
    THEN Result(accs, txs, "no_record")
    ELSE IF txs[tx].status # "Disputed"
    THEN Result(accs, txs, "wrong_status")
    ELSE IF client \notin DOMAIN accs
    THEN Result(accs, txs, "no_account")
    ELSE IF accs[client].locked
    THEN Result(accs, txs, "locked")
    ELSE LET reduced == accs[client].held - txs[tx].amount
             clamped == IF reduced < 0 THEN 0 ELSE reduced
         IN Result([accs EXCEPT ![client].held = clamped,
                                ![client].locked = TRUE],
                   [txs EXCEPT ![tx].status = "ChargedBack"],
                   "applied")

\* ProcessChargeback that deletes the record it charges back.
ProcessChargebackRemovesRecord(accs, txs, client, tx) ==
    IF tx \notin DOMAIN txs
    THEN Result(accs, txs, "no_record")
    ELSE IF txs[tx].client_id # client
    THEN Result(accs, txs, "mismatch")
    ELSE IF txs[tx].status # "Disputed"
    THEN Result(accs, txs, "wrong_status")
    ELSE IF client \notin DOMAIN accs
    THEN Result(accs, txs, "no_account")
    ELSE IF accs[client].locked
    THEN Result(accs, txs, "locked")
    ELSE LET reduced == accs[client].held - txs[tx].amount
             clamped == IF reduced < 0 THEN 0 ELSE reduced
         IN Result([accs EXCEPT ![client].held = clamped,
                                ![client].locked = TRUE],
                   [t \in (DOMAIN txs) \ {tx} |-> txs[t]],
                   "applied")

\* ProcessChargeback that does not look at the lock.
ProcessChargebackIgnoresLock(accs, txs, client, tx) ==
    IF tx \notin DOMAIN txs
    THEN Result(accs, txs, "no_record")
    ELSE IF txs[tx].client_id # client
    THEN Result(accs, txs, "mismatch")
    ELSE IF txs[tx].status # "Disputed"
    THEN Result(accs, txs, "wrong_status")
    ELSE IF client \notin DOMAIN accs
    THEN Result(accs, txs, "no_account")
    ELSE LET reduced == accs[client].held - txs[tx].amount
             clamped == IF reduced < 0 THEN 0 ELSE reduced
         IN Result([accs EXCEPT ![client].held = clamped,
                                ![client].locked = TRUE],
                   [txs EXCEPT ![tx].status = "ChargedBack"],
                   "applied")

\* Command::Chargeback
ProcessChargeback(accs, txs, client, tx) ==
    IF tx \notin DOMAIN txs
    THEN Result(accs, txs, "no_record")
    ELSE IF txs[tx].client_id # client \/ txs[tx].status # "Disputed"
    THEN Result(accs, txs,
                IF txs[tx].client_id # client THEN "mismatch" ELSE "wrong_status")
    ELSE IF client \notin DOMAIN accs
    THEN Result(accs, txs, "no_account")
    ELSE IF accs[client].locked
    THEN Result(accs, txs, "locked")
    ELSE LET reduced == accs[client].held - txs[tx].amount
             clamped == IF reduced < 0 THEN 0 ELSE reduced
         IN Result([accs EXCEPT ![client].held = clamped,
                                ![client].locked = TRUE],
                   [txs EXCEPT ![tx].status = "ChargedBack"],
                   "applied")

\* The match on the command's variant.
ProcessSingleCommand(accs, txs, cmd) ==
    CASE cmd.kind = "deposit" ->
           ProcessDeposit(accs, txs, cmd.client_id, cmd.tx, cmd.amount)
      [] cmd.kind = "withdrawal" ->
           ProcessWithdrawal(accs, txs, cmd.client_id, cmd.tx, cmd.amount)
      [] cmd.kind = "dispute" ->
           ProcessDispute(accs, txs, cmd.client_id, cmd.tx)
      [] cmd.kind = "resolve" ->
           ProcessResolve(accs, txs, cmd.client_id, cmd.tx)
      [] cmd.kind = "chargeback" ->
           ProcessChargeback(accs, txs, cmd.client_id, cmd.tx)

-----------------------------------------------------------------------------
\* The state machine fed one command at a time

\* State::new()
EmptyMap == [x \in {} |-> 0]

\* main up to and including setup_engine, on the input file rs: the channel
\* is empty and open, the engine task is spawned and about to receive, main
\* is about to ask the reader for the first row.
PipeInit(rs) ==
    /\ rows = rs
    /\ next_row = 1
    /\ producer = "next"
    /\ pending = NoCommand
    /\ record_count = 0
    /\ skipped_count = 0
    /\ chan = <<>>
    /\ closed = FALSE
    /\ consumer = "recv"
    /\ cur = NoCommand
    /\ exported = EmptyMap
    /\ exports = 0
    /\ sent = <<>>
    /\ received = <<>>

Init ==
    /\ accounts = EmptyMap
    /\ transactions = EmptyMap
    /\ last = NoCommand
    /\ outcome = "none"
    /\ hist = <<>>
    /\ PipeInit(<<>>)

\* One call of process_single_command(cmd) on the current state.
Apply(cmd) ==
    LET r == ProcessSingleCommand(accounts, transactions, cmd)
    IN /\ accounts' = r.accounts
       /\ transactions' = r.transactions
       /\ last' = cmd
       /\ outcome' = r.outcome

Deposit(client, tx, amount) ==
    Apply(DepositCmd(client, tx, amount)) /\ UNCHANGED <<hist, pipeVars>>

Withdrawal(client, tx, amount) ==
    Apply(WithdrawalCmd(client, tx, amount)) /\ UNCHANGED <<hist, pipeVars>>

Dispute(client, tx) ==
    Apply(DisputeCmd(client, tx)) /\ UNCHANGED <<hist, pipeVars>>

Resolve(client, tx) ==
    Apply(ResolveCmd(client, tx)) /\ UNCHANGED <<hist, pipeVars>>

Chargeback(client, tx) ==
    Apply(ChargebackCmd(client, tx)) /\ UNCHANGED <<hist, pipeVars>>

Next ==
    \E client \in Clients, tx \in Txs :
        \/ \E amount \in Amounts : Deposit(client, tx, amount)
        \/ \E amount \in Amounts : Withdrawal(client, tx, amount)
        \/ Dispute(client, tx)
        \/ Resolve(client, tx)
        \/ Chargeback(client, tx)

Spec == Init /\ [][Next]_vars

-----------------------------------------------------------------------------
\* The same state machine with the processed commands recorded, for the
\* claims that compare whole command sequences.  runner::run applies the
\* commands it receives one after the other to a State::new().

RecDeposit(client, tx, amount) ==
    /\ Len(hist) < MaxCmds
    /\ Apply(DepositCmd(client, tx, amount))
    /\ hist' = Append(hist, DepositCmd(client, tx, amount))
    /\ UNCHANGED pipeVars

RecWithdrawal(client, tx, amount) ==
    /\ Len(hist) < MaxCmds
    /\ Apply(WithdrawalCmd(client, tx, amount))
    /\ hist' = Append(hist, WithdrawalCmd(client, tx, amount))
    /\ UNCHANGED pipeVars

RecDispute(client, tx) ==
    /\ Len(hist) < MaxCmds
    /\ Apply(DisputeCmd(client, tx))
    /\ hist' = Append(hist, DisputeCmd(client, tx))
    /\ UNCHANGED pipeVars

RecResolve(client, tx) ==
    /\ Len(hist) < MaxCmds
    /\ Apply(ResolveCmd(client, tx))
    /\ hist' = Append(hist, ResolveCmd(client, tx))
    /\ UNCHANGED pipeVars

RecChargeback(client, tx) ==
    /\ Len(hist) < MaxCmds
    /\ Apply(ChargebackCmd(client, tx))
    /\ hist' = Append(hist, ChargebackCmd(client, tx))
    /\ UNCHANGED pipeVars

NextSeq ==
    \E client \in Clients, tx \in Txs :
        \/ \E amount \in Amounts : RecDeposit(client, tx, amount)
        \/ \E amount \in Amounts : RecWithdrawal(client, tx, amount)
        \/ RecDispute(client, tx)
        \/ RecResolve(client, tx)
        \/ RecChargeback(client, tx)

SpecSeq == Init /\ [][NextSeq]_vars

\* The while-let loop of runner::run on a whole command sequence: the result
\* of the last call, starting from the given maps.
RECURSIVE RunFrom(_, _, _)
RunFrom(accs, txs, cmds) ==
    IF cmds = <<>>
    THEN Result(accs, txs, "none")
    ELSE IF Len(cmds) = 1
    THEN ProcessSingleCommand(accs, txs, cmds[1])
    ELSE LET r == ProcessSingleCommand(accs, txs, cmds[1])
         IN RunFrom(r.accounts, r.transactions, Tail(cmds))

\* From State::new().
Run(cmds) == RunFrom(EmptyMap, EmptyMap, cmds)

-----------------------------------------------------------------------------
\* The pipeline (src/src/engine/runner.rs, src/src/main.rs): main reads,
\* decodes and sends; the spawned engine task receives, applies and exports.
\* The two run concurrently and meet only at the channel.

\* Option<Decimal>
NoAmount == [is_some |-> FALSE]
SomeAmount(a) == [is_some |-> TRUE, value |-> a]

\* What one step of the deserialize iterator yields: Ok(TransactionInput) or
\* Err(csv::Error).
OkRow(kind, client, tx, amount) ==
    [ok |-> TRUE,
     rec |-> [kind |-> kind, client_id |-> client, tx |-> tx, amount |-> amount]]
ErrRow == [ok |-> FALSE]

\* The type column: the five known kinds and one unknown one.
Kinds == {"deposit", "withdrawal", "dispute", "resolve", "chargeback", "transfer"}

RowIds == 1..MaxRowId

\* The rows an input file is made of: every kind, with and without an amount.
InputRows ==
    {ErrRow} \cup
    {OkRow(k, c, t, a) : k \in Kinds, c \in RowIds, t \in RowIds,
                         a \in {NoAmount, SomeAmount(MaxAmount)}}

RECURSIVE SeqsUpTo(_, _)
SeqsUpTo(S, n) ==
    IF n = 0
    THEN {<<>>}
    ELSE LET shorter == SeqsUpTo(S, n - 1)
         IN shorter \cup {Append(q, x) : q \in shorter, x \in S}

\* The input files.
Inputs == SeqsUpTo(InputRows, MaxRows)

\* ToCommand that takes a missing amount for zero.
ToCommandDefaultsAmount(input) ==
    CASE input.kind = "deposit" ->
             [ok |-> TRUE,
              cmd |-> DepositCmd(input.client_id, input.tx,
                                 IF input.amount.is_some THEN input.amount.value ELSE 0)]
      [] input.kind = "withdrawal" ->
             [ok |-> TRUE,
              cmd |-> WithdrawalCmd(input.client_id, input.tx,
                                    IF input.amount.is_some THEN input.amount.value ELSE 0)]
      [] input.kind = "dispute" ->
             [ok |-> TRUE, cmd |-> DisputeCmd(input.client_id, input.tx)]
      [] input.kind = "resolve" ->
             [ok |-> TRUE, cmd |-> ResolveCmd(input.client_id, input.tx)]
      [] input.kind = "chargeback" ->
             [ok |-> TRUE, cmd |-> ChargebackCmd(input.client_id, input.tx)]
      [] OTHER -> [ok |-> FALSE]

\* TransactionInput::to_command
ToCommand(input) ==
    CASE input.kind = "deposit" ->
             IF input.amount.is_some
             THEN [ok |-> TRUE,
                   cmd |-> DepositCmd(input.client_id, input.tx, input.amount.value)]
             ELSE [ok |-> FALSE]
      [] input.kind = "withdrawal" ->
             IF input.amount.is_some
             THEN [ok |-> TRUE,
                   cmd |-> WithdrawalCmd(input.client_id, input.tx, input.amount.value)]
             ELSE [ok |-> FALSE]
      [] input.kind = "dispute" ->
             [ok |-> TRUE, cmd |-> DisputeCmd(input.client_id, input.tx)]
      [] input.kind = "resolve" ->
             [ok |-> TRUE, cmd |-> ResolveCmd(input.client_id, input.tx)]
      [] input.kind = "chargeback" ->
             [ok |-> TRUE, cmd |-> ChargebackCmd(input.client_id, input.tx)]
      [] OTHER -> [ok |-> FALSE]

\* HasCapacity of a channel that never fills up.
HasCapacityUnbounded(queue) == TRUE

\* Sender::send completes at once when the channel has a free slot and
\* suspends the sending task otherwise.
HasCapacity(queue) == Len(queue) < Capacity

\* Recv that hands out the newest buffered command first.
RecvNewestFirst(queue, isClosed) ==
    IF queue # <<>>
    THEN [kind |-> "some", cmd |-> queue[Len(queue)],
          rest |-> SubSeq(queue, 1, Len(queue) - 1)]
    ELSE IF isClosed
    THEN [kind |-> "none"]
    ELSE [kind |-> "suspended"]

\* Recv that reports the end of the stream whenever the channel is empty.
RecvNoneWhenEmpty(queue, isClosed) ==
    IF queue # <<>>
    THEN [kind |-> "some", cmd |-> Head(queue), rest |-> Tail(queue)]
    ELSE [kind |-> "none"]

\* Recv that never reports the end of the stream, as if a Sender stayed alive.
RecvNeverNone(queue, isClosed) ==
    IF queue # <<>>
    THEN [kind |-> "some", cmd |-> Head(queue), rest |-> Tail(queue)]
    ELSE [kind |-> "suspended"]

\* Receiver::recv: the oldest buffered command if there is one, None once the
\* channel is empty and every Sender is dropped, and otherwise it suspends.
Recv(queue, isClosed) ==
    IF queue # <<>>
    THEN [kind |-> "some", cmd |-> Head(queue), rest |-> Tail(queue)]
    ELSE IF isClosed
    THEN [kind |-> "none"]
    ELSE [kind |-> "suspended"]

InitPipe ==
    /\ accounts = EmptyMap
    /\ transactions = EmptyMap
    /\ last = NoCommand
    /\ outcome = "none"
    /\ hist = <<>>
    /\ \E rs \in Inputs : PipeInit(rs)

engineVars == <<accounts, transactions, last, outcome, hist>>

\* One turn of the for loop up to the send: the iterator yields a row; a row
\* that fails to deserialize or to convert is counted and skipped, any other
\* becomes the command to send.
ReadRow ==
    /\ producer = "next"
    /\ next_row <= Len(rows)
    /\ next_row' = next_row + 1
    /\ LET row == rows[next_row]
           conv == IF row.ok THEN ToCommand(row.rec) ELSE [ok |-> FALSE]
       IN IF conv.ok
          THEN /\ pending' = conv.cmd
               /\ producer' = "send"
               /\ UNCHANGED skipped_count
          ELSE /\ skipped_count' = skipped_count + 1
               /\ UNCHANGED <<pending, producer>>
    /\ UNCHANGED <<engineVars, rows, record_count, chan, closed, consumer, cur,
                   exported, exports, sent, received>>

\* cmd_tx.send(cmd).await and the rest of the loop body.  The send fails only
\* if the Receiver is gone, which is when run has returned; the loop is then
\* left and cmd_tx dropped.
Send ==
    /\ producer = "send"
    /\ IF consumer = "returned"
       THEN /\ closed' = TRUE
            /\ producer' = "finalize"
            /\ UNCHANGED <<chan, sent, record_count>>
       ELSE /\ HasCapacity(chan)
            /\ chan' = Append(chan, pending)
            /\ sent' = Append(sent, pending)
            /\ record_count' = record_count + 1
            /\ producer' = IF record_count' % YieldEvery = 0 THEN "yield" ELSE "next"
            /\ UNCHANGED closed
    /\ pending' = NoCommand
    /\ UNCHANGED <<engineVars, rows, next_row, skipped_count, consumer, cur,
                   exported, exports, received>>

\* tokio::task::yield_now().await
Yield ==
    /\ producer = "yield"
    /\ producer' = "next"
    /\ UNCHANGED <<engineVars, rows, next_row, pending, record_count,
                   skipped_count, chan, closed, consumer, cur, exported,
                   exports, sent, received>>

\* The iterator is exhausted: the loop ends, cmd_tx is dropped and
\* send_commands_to_engine returns to main, which calls finalize_engine.
EndOfInput ==
    /\ producer = "next"
    /\ next_row > Len(rows)
    /\ closed' = TRUE
    /\ producer' = "finalize"
    /\ UNCHANGED <<engineVars, rows, next_row, pending, record_count,
                   skipped_count, chan, consumer, cur, exported, exports,
                   sent, received>>

\* finalize_engine: handle.await completes once the engine task has finished.
Finalize ==
    /\ producer = "finalize"
    /\ consumer = "returned"
    /\ producer' = "returned"
    /\ UNCHANGED <<engineVars, rows, next_row, pending, record_count,
                   skipped_count, chan, closed, consumer, cur, exported,
                   exports, sent, received>>

\* rx.recv().await returns Some(cmd), or None which ends the while-let loop.
Receive ==
    /\ consumer = "recv"
    /\ LET got == Recv(chan, closed)
       IN /\ got.kind # "suspended"
          /\ IF got.kind = "some"
             THEN /\ cur' = got.cmd
                  /\ chan' = got.rest
                  /\ received' = Append(received, got.cmd)
                  /\ consumer' = "process"
             ELSE /\ consumer' = "output"
                  /\ UNCHANGED <<cur, chan, received>>
    /\ UNCHANGED <<engineVars, rows, next_row, producer, pending, record_count,
                   skipped_count, closed, exported, exports, sent>>

\* state.process_single_command(cmd)
Process ==
    /\ consumer = "process"
    /\ Apply(cur)
    /\ hist' = Append(hist, cur)
    /\ cur' = NoCommand
    /\ consumer' = "recv"
    /\ UNCHANGED <<rows, next_row, producer, pending, record_count,
                   skipped_count, chan, closed, exported, exports, sent,
                   received>>

\* output_accounts(&state.accounts, io::stdout()), after which run returns
\* and the Receiver is dropped.
Output ==
    /\ consumer = "output"
    /\ exported' = accounts
    /\ exports' = exports + 1
    /\ consumer' = "returned"
    /\ UNCHANGED <<engineVars, rows, next_row, producer, pending, record_count,
                   skipped_count, chan, closed, cur, sent, received>>

\* main's task and the engine task.
Producer == ReadRow \/ Send \/ Yield \/ EndOfInput \/ Finalize
Consumer == Receive \/ Process \/ Output

NextPipe == Producer \/ Consumer

\* The runtime polls every task that is ready to run: neither task is left
\* waiting forever while it could take a step.
SpecPipe ==
    InitPipe /\ [][NextPipe]_vars /\ WF_vars(Producer) /\ WF_vars(Consumer)

\* The commands the loop of send_commands_to_engine sends for the given rows.
RECURSIVE DecodeRows(_)
DecodeRows(rs) ==
    IF rs = <<>>
    THEN <<>>
    ELSE LET conv == IF Head(rs).ok THEN ToCommand(Head(rs).rec) ELSE [ok |-> FALSE]
         IN (IF conv.ok THEN <<conv.cmd>> ELSE <<>>) \o DecodeRows(Tail(rs))

-----------------------------------------------------------------------------
\* Vocabulary of the properties

\* The result of handing cmd to process_single_command in the current state.
Step(cmd) == ProcessSingleCommand(accounts, transactions, cmd)

\* A client's available balance; an absent account counts as the zero balance
\* it is created with.
AvailableOf(accs, client) ==
    IF client \in DOMAIN accs THEN accs[client].available ELSE 0

\* The places where an arm is left without applying the command.
Rejections ==
    {"duplicate", "locked", "insufficient", "no_record", "mismatch",
     "wrong_status", "no_account"}

IsDepositOrWithdrawal(cmd) == cmd.kind \in {"deposit", "withdrawal"}

\* seq without its j-th element.
RemoveAt(seq, j) == SubSeq(seq, 1, j - 1) \o SubSeq(seq, j + 1, Len(seq))

\* The pairs of positions of the history holding two deposit or withdrawal
\* commands with the same transaction id.
SameTxPairs ==
    {p \in (1..Len(hist)) \X (1..Len(hist)) :
        /\ p[1] < p[2]
        /\ IsDepositOrWithdrawal(hist[p[1]])
        /\ IsDepositOrWithdrawal(hist[p[2]])
        /\ hist[p[1]].tx = hist[p[2]].tx}

\* The i-th command of the history inserted its record.
AppliedAt(i) ==
    LET before == Run(SubSeq(hist, 1, i - 1))
        after == Run(SubSeq(hist, 1, i))
    IN hist[i].tx \in (DOMAIN after.transactions) \ (DOMAIN before.transactions)

-----------------------------------------------------------------------------
\* C1: whenever process_single_command rejects a command at one of its
\* checks, the account mapping (including which clients have an account) and
\* the transaction ledger are the same after the call as before it.
C1_RejectionLeavesStateUnchanged ==
    [][outcome' \in Rejections =>
          accounts' = accounts /\ transactions' = transactions]_vars

\* C2 as stated: of two deposit or withdrawal commands with the same
\* transaction id only the first has an effect, so the final state is the
\* state obtained from the sequence with the second command removed.
C2_SecondOfSameTxHasNoEffect ==
    \A p \in SameTxPairs :
        LET without == Run(RemoveAt(hist, p[2]))
        IN accounts = without.accounts /\ transactions = without.transactions

\* C2 as amended: when the first of two deposit or withdrawal commands with
\* the same transaction id was applied (its record inserted), the second has
\* no effect: the final state is the state obtained from the sequence with
\* the second command removed.
C2_SecondAfterAppliedFirstHasNoEffect ==
    \A p \in SameTxPairs :
        AppliedAt(p[1]) =>
            LET without == Run(RemoveAt(hist, p[2]))
            IN accounts = without.accounts /\ transactions = without.transactions

\* A history ending in a withdrawal by another client, with another amount,
\* that reuses the transaction id of an applied deposit.
C2_Witness ==
    \E p \in SameTxPairs :
        /\ AppliedAt(p[1])
        /\ p[2] = Len(hist)
        /\ hist[p[1]].kind = "deposit"
        /\ hist[p[2]].kind = "withdrawal"
        /\ hist[p[1]].client_id # hist[p[2]].client_id
        /\ hist[p[1]].amount # hist[p[2]].amount
        /\ outcome = "duplicate"

\* C3: a locked account stays locked under every command, and no command
\* naming a locked client changes its available, its held or the status of
\* a record it owns, or creates a record owned by it.
C3_LockedAccountIsFrozen ==
    \A cmd \in Command :
        LET r == Step(cmd)
            c == cmd.client_id
        IN /\ \A k \in DOMAIN accounts :
                  accounts[k].locked =>
                      k \in DOMAIN r.accounts /\ r.accounts[k].locked
           /\ IsLocked(accounts, c) =>
                  /\ r.accounts[c].available = accounts[c].available
                  /\ r.accounts[c].held = accounts[c].held
                  /\ \A t \in DOMAIN r.transactions :
                         r.transactions[t].client_id = c =>
                             /\ t \in DOMAIN transactions
                             /\ r.transactions[t].status = transactions[t].status

\* A dispute of a Normal deposit by its owner was rejected because the
\* owner's account is locked.
C3_Witness ==
    /\ last.kind = "dispute"
    /\ outcome = "locked"
    /\ IsLocked(accounts, last.client_id)
    /\ last.tx \in DOMAIN transactions
    /\ transactions[last.tx].client_id = last.client_id
    /\ transactions[last.tx].is_deposit
    /\ transactions[last.tx].status = "Normal"

\* C4 as stated: a withdrawal is applied (available reduced by the amount and
\* a record inserted under its tx id) if and only if the client's available
\* balance is >= the amount when it is processed, and creates no record when
\* it is not applied.
C4_AppliedIffSufficientFunds ==
    [][last'.kind = "withdrawal" =>
          LET c == last'.client_id
              t == last'.tx
              a == last'.amount
              applied ==
                  /\ transactions' = Put(transactions, t, NewRecord(c, a, FALSE))
                  /\ c \in DOMAIN accounts'
                  /\ accounts'[c].available = AvailableOf(accounts, c) - a
          IN /\ applied <=> AvailableOf(accounts, c) >= a
             /\ ~applied => transactions' = transactions]_vars

\* C4 as amended: a withdrawal whose tx id has no record and whose client's
\* account is not locked is applied if and only if the client's available
\* balance (zero when there is no account) is >= the amount; a withdrawal
\* that is not applied creates no record.
C4_FreshWithdrawalAppliedIffSufficientFunds ==
    \A c \in Clients, t \in Txs, a \in Amounts :
        LET r == ProcessWithdrawal(accounts, transactions, c, t, a)
            avail == AvailableOf(accounts, c)
            applied ==
                /\ r.transactions = Put(transactions, t, NewRecord(c, a, FALSE))
                /\ c \in DOMAIN r.accounts
                /\ r.accounts[c].available = avail - a
        IN /\ (t \notin DOMAIN transactions /\ ~IsLocked(accounts, c)) =>
                  (applied <=> avail >= a)
           /\ ~applied => r.transactions = transactions

\* A withdrawal of exactly the available balance was applied.
C4_Witness ==
    /\ last.kind = "withdrawal"
    /\ outcome = "applied"
    /\ last.amount > 0
    /\ accounts[last.client_id].available = 0
    /\ transactions[last.tx] = NewRecord(last.client_id, last.amount, FALSE)

\* C5: dispute followed by resolve is a round trip.  From every reachable
\* state, if a dispute of tx by client c succeeds and the next command is the
\* resolve of tx by c, accounts and ledger (so c's available and held and the
\* record's status) are exactly what they were before the dispute; and every
\* recorded history whose last two commands are such a pair ends in the state
\* it was in before the pair.
C5_DisputeResolveRoundTrip ==
    /\ \A c \in Clients, t \in Txs :
           LET d == ProcessDispute(accounts, transactions, c, t)
               r == ProcessResolve(d.accounts, d.transactions, c, t)
           IN (/\ t \in DOMAIN transactions
               /\ transactions[t].status = "Normal"
               /\ d.transactions[t].status = "Disputed") =>
                  /\ r.accounts = accounts
                  /\ r.transactions = transactions
    /\ Len(hist) >= 2 =>
           LET n == Len(hist)
               before == Run(SubSeq(hist, 1, n - 2))
               between == Run(SubSeq(hist, 1, n - 1))
               t == hist[n].tx
           IN (/\ hist[n - 1].kind = "dispute"
               /\ hist[n] = ResolveCmd(hist[n - 1].client_id, hist[n - 1].tx)
               /\ t \in DOMAIN before.transactions
               /\ before.transactions[t].status = "Normal"
               /\ between.transactions[t].status = "Disputed") =>
                  /\ accounts = before.accounts
                  /\ transactions = before.transactions

\* A history ending in a successful dispute of a positive deposit followed by
\* its resolve.
C5_Witness ==
    /\ Len(hist) >= 2
    /\ hist[Len(hist) - 1].kind = "dispute"
    /\ hist[Len(hist)] =
           ResolveCmd(hist[Len(hist) - 1].client_id, hist[Len(hist) - 1].tx)
    /\ outcome = "applied"
    /\ Run(SubSeq(hist, 1, Len(hist) - 1)).outcome = "applied"
    /\ transactions[last.tx].amount > 0
    /\ transactions[last.tx].status = "Normal"

\* C6: after every successfully applied chargeback the charged-back account's
\* held is >= 0, whatever held and the record's amount were before.
C6_HeldNonNegativeAfterChargeback ==
    \A c \in Clients, t \in Txs :
        LET r == ProcessChargeback(accounts, transactions, c, t)
        IN (/\ t \in DOMAIN transactions
            /\ transactions[t].status # "ChargedBack"
            /\ r.transactions[t].status = "ChargedBack") =>
               r.accounts[c].held >= 0

\* A chargeback was applied to an account whose other open dispute has a
\* negative amount, so that held minus the amount was below zero.
C6_Witness ==
    /\ last.kind = "chargeback"
    /\ outcome = "applied"
    /\ accounts[last.client_id].held = 0
    /\ \E t \in DOMAIN transactions :
           /\ t # last.tx
           /\ transactions[t].client_id = last.client_id
           /\ transactions[t].status = "Disputed"
           /\ transactions[t].amount < 0

\* C7: a record is created Normal and is never removed, and its status
\* changes only Normal -> Disputed by a dispute, Disputed -> Normal by a
\* resolve, Disputed -> ChargedBack by a chargeback, each naming the record
\* and its owner; ChargedBack never changes again.
C7_StatusTransitions ==
    \A cmd \in Command :
        LET r == Step(cmd)
        IN /\ \A t \in DOMAIN transactions :
                  /\ t \in DOMAIN r.transactions
                  /\ LET s == transactions[t].status
                         s2 == r.transactions[t].status
                         named == /\ cmd.tx = t
                                  /\ cmd.client_id = transactions[t].client_id
                     IN \/ s2 = s
                        \/ s = "Normal" /\ s2 = "Disputed"
                               /\ cmd.kind = "dispute" /\ named
                        \/ s = "Disputed" /\ s2 = "Normal"
                               /\ cmd.kind = "resolve" /\ named
                        \/ s = "Disputed" /\ s2 = "ChargedBack"
                               /\ cmd.kind = "chargeback" /\ named
           /\ \A t \in (DOMAIN r.transactions) \ (DOMAIN transactions) :
                  r.transactions[t].status = "Normal"

\* A chargeback of a Normal record by its owner was refused, in a state that
\* also holds a ChargedBack record.
C7_Witness ==
    /\ last.kind = "chargeback"
    /\ outcome = "wrong_status"
    /\ transactions[last.tx].status = "Normal"
    /\ \E t \in DOMAIN transactions : transactions[t].status = "ChargedBack"

\* C8: a deposit or withdrawal whose tx id already has a record leaves the
\* whole state unchanged, whoever owns the record, whatever its kind, and
\* also when the command's client has no account.
C8_DuplicateIdIsGlobal ==
    \A c \in Clients, t \in Txs, a \in Amounts :
        t \in DOMAIN transactions =>
            LET d == ProcessDeposit(accounts, transactions, c, t, a)
                w == ProcessWithdrawal(accounts, transactions, c, t, a)
            IN /\ d.accounts = accounts /\ d.transactions = transactions
               /\ w.accounts = accounts /\ w.transactions = transactions

\* A deposit by a client with no account was rejected because its tx id
\* names another client's withdrawal.
C8_Witness ==
    /\ last.kind = "deposit"
    /\ outcome = "duplicate"
    /\ last.client_id \notin DOMAIN accounts
    /\ transactions[last.tx].client_id # last.client_id
    /\ ~transactions[last.tx].is_deposit

\* C9: a dispute by client c of a Normal deposit record owned by c, with c's
\* account not locked, sets the status to Disputed, takes the record's amount
\* from available and adds it to held (available + held unchanged) and
\* changes nothing else; a dispute of a record that is Disputed changes
\* nothing.
C9_DisputeMovesAmountToHeld ==
    \A c \in Clients, t \in Txs :
        LET r == ProcessDispute(accounts, transactions, c, t)
        IN /\ (/\ ~IsLocked(accounts, c)
               /\ t \in DOMAIN transactions
               /\ transactions[t].client_id = c
               /\ transactions[t].is_deposit
               /\ transactions[t].status = "Normal") =>
                  LET a == transactions[t].amount
                      again == ProcessDispute(r.accounts, r.transactions, c, t)
                  IN /\ r.transactions = [transactions EXCEPT ![t].status = "Disputed"]
                     /\ DOMAIN r.accounts = DOMAIN accounts
                     /\ \A k \in DOMAIN accounts : k # c => r.accounts[k] = accounts[k]
                     /\ r.accounts[c].available = accounts[c].available - a
                     /\ r.accounts[c].held = accounts[c].held + a
                     /\ r.accounts[c].locked = accounts[c].locked
                     /\ r.accounts[c].available + r.accounts[c].held
                            = accounts[c].available + accounts[c].held
                     /\ again.accounts = r.accounts
                     /\ again.transactions = r.transactions
           /\ (t \in DOMAIN transactions /\ transactions[t].status = "Disputed") =>
                  r.accounts = accounts /\ r.transactions = transactions

\* A dispute was applied and left its owner with a negative available balance
\* and the amount held.
C9_Witness ==
    /\ last.kind = "dispute"
    /\ outcome = "applied"
    /\ transactions[last.tx].status = "Disputed"
    /\ accounts[last.client_id].available < 0
    /\ accounts[last.client_id].held = transactions[last.tx].amount
    /\ transactions[last.tx].amount > 0

\* C10: a chargeback by client c of a Disputed record owned by c, with c's
\* account not locked, sets the status to ChargedBack, sets held to
\* max(0, held - amount), locks the account and leaves available (negative or
\* not) and everything else unchanged.
C10_ChargebackEffect ==
    \A c \in Clients, t \in Txs :
        (/\ t \in DOMAIN transactions
         /\ transactions[t].client_id = c
         /\ transactions[t].status = "Disputed"
         /\ ~IsLocked(accounts, c)) =>
            LET r == ProcessChargeback(accounts, transactions, c, t)
                left == accounts[c].held - transactions[t].amount
            IN /\ r.transactions = [transactions EXCEPT ![t].status = "ChargedBack"]
               /\ DOMAIN r.accounts = DOMAIN accounts
               /\ \A k \in DOMAIN accounts : k # c => r.accounts[k] = accounts[k]
               /\ r.accounts[c].held = IF left > 0 THEN left ELSE 0
               /\ r.accounts[c].locked
               /\ r.accounts[c].available = accounts[c].available

\* A chargeback was applied to an account whose available balance the dispute
\* had made negative, and it is still negative.
C10_Witness ==
    /\ last.kind = "chargeback"
    /\ outcome = "applied"
    /\ transactions[last.tx].status = "ChargedBack"
    /\ transactions[last.tx].amount > 0
    /\ accounts[last.client_id].available < 0
    /\ accounts[last.client_id].held = 0
    /\ accounts[last.client_id].locked

\* C11: every withdrawal record has status Normal, and a dispute, resolve or
\* chargeback naming a withdrawal's tx id, by any client, leaves accounts and
\* ledger unchanged.
C11_OnlyDepositsDisputable ==
    /\ \A t \in DOMAIN transactions :
           ~transactions[t].is_deposit => transactions[t].status = "Normal"
    /\ \A c \in Clients, t \in Txs :
           (t \in DOMAIN transactions /\ ~transactions[t].is_deposit) =>
               LET d == ProcessDispute(accounts, transactions, c, t)
                   r == ProcessResolve(accounts, transactions, c, t)
                   b == ProcessChargeback(accounts, transactions, c, t)
               IN /\ d.accounts = accounts /\ d.transactions = transactions
                  /\ r.accounts = accounts /\ r.transactions = transactions
                  /\ b.accounts = accounts /\ b.transactions = transactions

\* A dispute of a withdrawal by its owner, whose account is not locked, was
\* ignored.
C11_Witness ==
    /\ last.kind = "dispute"
    /\ outcome = "wrong_status"
    /\ last.tx \in DOMAIN transactions
    /\ ~transactions[last.tx].is_deposit
    /\ transactions[last.tx].client_id = last.client_id
    /\ transactions[last.tx].amount > 0
    /\ ~IsLocked(accounts, last.client_id)

\* C12: a dispute, resolve or chargeback whose client differs from the owner
\* of the record it names changes no account and no record.
C12_OwnerMismatchIsVoid ==
    \A c \in Clients, t \in Txs :
        (t \in DOMAIN transactions /\ transactions[t].client_id # c) =>
            LET d == ProcessDispute(accounts, transactions, c, t)
                r == ProcessResolve(accounts, transactions, c, t)
                b == ProcessChargeback(accounts, transactions, c, t)
            IN /\ d.accounts = accounts /\ d.transactions = transactions
               /\ r.accounts = accounts /\ r.transactions = transactions
               /\ b.accounts = accounts /\ b.transactions = transactions

\* A chargeback of a Disputed record was refused because it named a client,
\* with an unlocked account of its own, who does not own the record.
C12_Witness ==
    /\ last.kind = "chargeback"
    /\ outcome = "mismatch"
    /\ transactions[last.tx].status = "Disputed"
    /\ last.client_id \in DOMAIN accounts
    /\ ~accounts[last.client_id].locked

\* C13: no deposit, withdrawal, resolve or chargeback takes an account from
\* available >= 0 (an absent account counting as zero) to available < 0.
C13_OnlyDisputeDrivesAvailableNegative ==
    [][last'.kind \in {"deposit", "withdrawal", "resolve", "chargeback"} =>
          \A c \in DOMAIN accounts' :
              AvailableOf(accounts, c) >= 0 => accounts'[c].available >= 0]_vars

\* C14: a dispute, resolve or chargeback adds no entry to the account mapping
\* and none to the ledger, known client and tx or not.
C14_DisputeLifecycleAddsNoEntry ==
    \A c \in Clients, t \in Txs :
        LET d == ProcessDispute(accounts, transactions, c, t)
            r == ProcessResolve(accounts, transactions, c, t)
            b == ProcessChargeback(accounts, transactions, c, t)
        IN /\ DOMAIN d.accounts = DOMAIN accounts
           /\ DOMAIN d.transactions = DOMAIN transactions
           /\ DOMAIN r.accounts = DOMAIN accounts
           /\ DOMAIN r.transactions = DOMAIN transactions
           /\ DOMAIN b.accounts = DOMAIN accounts
           /\ DOMAIN b.transactions = DOMAIN transactions

\* A dispute naming a client with no account and a tx with no record was
\* processed, in a state that has other accounts and records.
C14_Witness ==
    /\ last.kind = "dispute"
    /\ last.client_id \notin DOMAIN accounts
    /\ last.tx \notin DOMAIN transactions
    /\ DOMAIN accounts # {}
    /\ DOMAIN transactions # {}

\* C15: a deposit whose tx id has no record and whose client's account is
\* absent or unlocked succeeds: the account is created as 0 / 0 / unlocked if
\* absent, available grows by exactly the amount, held and locked stay, the
\* record {client, amount, is_deposit, Normal} is inserted under tx, and
\* nothing else changes.
C15_FreshDepositSucceeds ==
    \A c \in Clients, t \in Txs, a \in Amounts :
        (t \notin DOMAIN transactions /\ ~IsLocked(accounts, c)) =>
            LET r == ProcessDeposit(accounts, transactions, c, t, a)
                old == IF c \in DOMAIN accounts THEN accounts[c]
                       ELSE [client_id |-> c, available |-> 0, held |-> 0,
                             locked |-> FALSE]
            IN /\ DOMAIN r.accounts = (DOMAIN accounts) \cup {c}
               /\ \A k \in DOMAIN accounts : k # c => r.accounts[k] = accounts[k]
               /\ r.accounts[c].available = old.available + a
               /\ r.accounts[c].held = old.held
               /\ r.accounts[c].locked = old.locked
               /\ DOMAIN r.transactions = (DOMAIN transactions) \cup {t}
               /\ \A k \in DOMAIN transactions : r.transactions[k] = transactions[k]
               /\ r.transactions[t] =
                      [client_id |-> c, amount |-> a, is_deposit |-> TRUE,
                       status |-> "Normal"]

\* A deposit created its client's account, beside another client's account.
C15_Witness ==
    /\ last.kind = "deposit"
    /\ outcome = "applied"
    /\ last.amount > 0
    /\ accounts[last.client_id] =
           [client_id |-> last.client_id, available |-> last.amount,
            held |-> 0, locked |-> FALSE]
    /\ \A t \in DOMAIN transactions :
           transactions[t].client_id = last.client_id => t = last.tx
    /\ DOMAIN accounts # {last.client_id}

\* C16: a withdrawal rejected for insufficient funds, and a deposit or
\* withdrawal rejected because the account is locked, leave no record under
\* their tx id, and a later deposit or sufficiently funded withdrawal with the
\* same tx id by a client whose account is not locked is applied.
C16_RejectedTxIdStaysFree ==
    \A c \in Clients, t \in Txs, a \in Amounts :
        t \notin DOMAIN transactions =>
            LET w == ProcessWithdrawal(accounts, transactions, c, t, a)
                d == ProcessDeposit(accounts, transactions, c, t, a)
                Reusable(r) ==
                    /\ t \notin DOMAIN r.transactions
                    /\ \A c2 \in Clients, a2 \in Amounts :
                           ~IsLocked(r.accounts, c2) =>
                               LET d2 == ProcessDeposit(r.accounts, r.transactions,
                                                        c2, t, a2)
                                   w2 == ProcessWithdrawal(r.accounts, r.transactions,
                                                           c2, t, a2)
                               IN /\ d2.transactions[t] = NewRecord(c2, a2, TRUE)
                                  /\ d2.accounts[c2].available =
                                         AvailableOf(r.accounts, c2) + a2
                                  /\ AvailableOf(r.accounts, c2) >= a2 =>
                                         /\ w2.transactions[t] = NewRecord(c2, a2, FALSE)
                                         /\ w2.accounts[c2].available =
                                                AvailableOf(r.accounts, c2) - a2
            IN /\ (IsLocked(accounts, c) \/ AvailableOf(accounts, c) < a) => Reusable(w)
               /\ IsLocked(accounts, c) => Reusable(d)

\* A history in which a withdrawal was rejected for insufficient funds and
\* the next command, a deposit with the same tx id, was applied.
C16_Witness ==
    /\ Len(hist) >= 2
    /\ hist[Len(hist) - 1].kind = "withdrawal"
    /\ Run(SubSeq(hist, 1, Len(hist) - 1)).outcome = "insufficient"
    /\ last.kind = "deposit"
    /\ last.tx = hist[Len(hist) - 1].tx
    /\ outcome = "applied"
    /\ transactions[last.tx] = NewRecord(last.client_id, last.amount, TRUE)

\* C17: whatever the interleaving of the two tasks, the commands are applied
\* in input-row order, each applied fully before the next is received, and
\* the account mapping, at every moment and when exported, is the one the
\* sequential application of the same commands to an empty state gives.
C17_PipelineRefinesSequential ==
    /\ received \o chan
           \o (IF producer = "send" THEN <<pending>> ELSE <<>>)
           \o DecodeRows(SubSeq(rows, next_row, Len(rows)))
       = DecodeRows(rows)
    /\ received = hist \o (IF consumer = "process" THEN <<cur>> ELSE <<>>)
    /\ accounts = Run(hist).accounts
    /\ transactions = Run(hist).transactions
    /\ consumer = "returned" =>
           /\ hist = DecodeRows(rows)
           /\ exported = Run(DecodeRows(rows)).accounts

\* A whole run in which a deposit, its dispute and its chargeback went
\* through the channel and were applied; in any other order of the three the
\* account would not be locked.
C17_Witness ==
    /\ producer = "returned"
    /\ Len(hist) = MaxRows
    /\ \E c \in DOMAIN exported : exported[c].locked

\* C18: the commands sent and not yet received are the channel's content and
\* never more than its capacity; while the channel is full the sending task
\* cannot take a step and the receiving task can; every command sent is
\* received exactly once, in the order sent.
C18_HandOffBoundedAndLossless ==
    /\ Len(chan) <= Capacity
    /\ sent = received \o chan
    /\ Len(sent) = record_count
    /\ (producer = "send" /\ Len(chan) = Capacity) =>
           (~ENABLED Producer /\ ENABLED Consumer)
    /\ consumer = "returned" => (chan = <<>> /\ received = sent)

\* The sending task is suspended on a full channel.
C18_Witness ==
    /\ producer = "send"
    /\ Len(chan) = Capacity
    /\ consumer # "returned"

\* C19: the channel is closed only after the last input row has been handled;
\* the engine task exports only after the channel is closed and every command
\* sent has been applied; it exports exactly once, and the exported mapping
\* is the final one: no command is applied afterwards.
C19_ShutdownOrdering ==
    /\ closed =>
           /\ next_row > Len(rows)
           /\ producer \in {"finalize", "returned"}
           /\ sent = DecodeRows(rows)
    /\ consumer \in {"output", "returned"} =>
           /\ closed
           /\ chan = <<>>
           /\ hist = sent
    /\ exports = (IF consumer = "returned" THEN 1 ELSE 0)
    /\ consumer = "returned" => exported = accounts
    /\ producer = "returned" => consumer = "returned"

\* The engine task has exported the result of at least two commands, and
\* main is still in finalize_engine.
C19_Witness ==
    /\ exports = 1
    /\ producer = "finalize"
    /\ Len(hist) >= 2
    /\ exported # EmptyMap

\* C20: every run completes: eventually, and from then on, the channel is
\* closed, the engine task has seen the end of the stream and exported, and
\* finalize_engine has returned.  In particular no state is reachable in
\* which the two tasks wait for each other.
C20_RunCompletes ==
    <>[](/\ closed
         /\ consumer = "returned"
         /\ exports = 1
         /\ producer = "returned")

\* A completed run that sent more commands than the channel holds.
C20_Witness ==
    /\ producer = "returned"
    /\ consumer = "returned"
    /\ record_count > Capacity
    /\ skipped_count = 0

\* The rows that are to be skipped: those that fail to deserialize, those of
\* an unknown type, and deposits and withdrawals without an amount.
Skipped(row) ==
    \/ ~row.ok
    \/ row.rec.kind \notin {"deposit", "withdrawal", "dispute", "resolve", "chargeback"}
    \/ row.rec.kind \in {"deposit", "withdrawal"} /\ ~row.rec.amount.is_some

\* The command a row that is not skipped stands for.
Delivered(row) ==
    IF row.rec.kind \in {"deposit", "withdrawal"}
    THEN [kind |-> row.rec.kind, client_id |-> row.rec.client_id,
          tx |-> row.rec.tx, amount |-> row.rec.amount.value]
    ELSE [kind |-> row.rec.kind, client_id |-> row.rec.client_id,
          tx |-> row.rec.tx]

\* The commands of the rows that are not skipped, in the order of the rows.
RECURSIVE ExpectedCommands(_)
ExpectedCommands(rs) ==
    IF rs = <<>>
    THEN <<>>
    ELSE (IF Skipped(Head(rs)) THEN <<>> ELSE <<Delivered(Head(rs))>>)
             \o ExpectedCommands(Tail(rs))

\* C21: a row is skipped if and only if it fails to deserialize, has an
\* unknown type, or is a deposit or withdrawal without an amount; every other
\* row is delivered as the command of its type with its client, tx and
\* amount; the rows after a skipped row are still read and delivered, in
\* their original order.
C21_DecodingSkipsOnlyOffendingRows ==
    /\ sent \o (IF producer = "send" THEN <<pending>> ELSE <<>>)
           = ExpectedCommands(SubSeq(rows, 1, next_row - 1))
    /\ skipped_count = Cardinality({i \in 1..(next_row - 1) : Skipped(rows[i])})
    /\ producer \in {"finalize", "returned"} => next_row = Len(rows) + 1
    /\ consumer = "returned" => hist = ExpectedCommands(rows)

\* A completed run whose first row was skipped and whose other rows, two
\* different ones, were both delivered.
C21_Witness ==
    /\ producer = "returned"
    /\ Len(rows) = MaxRows
    /\ Skipped(rows[1])
    /\ skipped_count = 1
    /\ Len(hist) = Len(rows) - 1
    /\ hist[1] # hist[Len(hist)]

\* C22: every account's held balance is >= 0 in every reachable state.
C22_HeldNeverNegative ==
    \A c \in DOMAIN accounts : accounts[c].held >= 0

\* C23: no command removes an account or a transaction record, and no
\* command changes the owning client, the amount or the is_deposit flag of an
\* existing record.
C23_LedgerEntriesPermanent ==
    \A cmd \in Command :
        LET r == Step(cmd)
        IN /\ DOMAIN accounts \subseteq DOMAIN r.accounts
           /\ DOMAIN transactions \subseteq DOMAIN r.transactions
           /\ \A t \in DOMAIN transactions :
                  /\ r.transactions[t].client_id = transactions[t].client_id
                  /\ r.transactions[t].amount = transactions[t].amount
                  /\ r.transactions[t].is_deposit = transactions[t].is_deposit

\* Every tx id has a record and every client an account, one record has gone
\* through dispute and chargeback and still carries its owner, amount and
\* kind, and a later command was processed.
C23_Witness ==
    /\ DOMAIN transactions = Txs
    /\ DOMAIN accounts = Clients
    /\ \E t \in Txs :
           /\ transactions[t].status = "ChargedBack"
           /\ transactions[t].is_deposit
           /\ transactions[t].amount > 0
           /\ last.tx # t
    /\ last.kind = "deposit"
    /\ last.amount > 0
    /\ outcome = "applied"

\* The tx ids of the records owned by a client that have a given status.
RecordsWithStatus(txs, client, status) ==
    {t \in DOMAIN txs : txs[t].client_id = client /\ txs[t].status = status}

\* The sum of the amounts of the records under the given tx ids.
RECURSIVE SumAmounts(_, _)
SumAmounts(txs, ids) ==
    IF ids = {}
    THEN 0
    ELSE LET t == CHOOSE x \in ids : TRUE
         IN txs[t].amount + SumAmounts(txs, ids \ {t})

\* C24: for every account that is not locked, held equals the sum of the
\* amounts of the client's Disputed records.
C24_HeldMatchesOpenDisputes ==
    \A c \in DOMAIN accounts :
        ~accounts[c].locked =>
            accounts[c].held =
                SumAmounts(transactions, RecordsWithStatus(transactions, c, "Disputed"))

\* An unlocked account holds the amounts of two open disputes.
C24_Witness ==
    \E c \in DOMAIN accounts :
        /\ ~accounts[c].locked
        /\ Cardinality(RecordsWithStatus(transactions, c, "Disputed")) >= 2
        /\ \A t \in RecordsWithStatus(transactions, c, "Disputed") :
               transactions[t].amount > 0
        /\ accounts[c].held > MaxAmount

\* The tx ids of the deposit (or of the withdrawal) records owned by a client.
RecordsOfKind(txs, client, isDeposit) ==
    {t \in DOMAIN txs : txs[t].client_id = client /\ txs[t].is_deposit = isDeposit}

\* available + held, as output_accounts reports it.
TotalOf(accs, client) == accs[client].available + accs[client].held

\* C25: for every account that is not locked, available + held equals the sum
\* of the client's deposit records minus the sum of the client's withdrawal
\* records; a dispute or a resolve changes no account's available + held.
C25_BalanceConservation ==
    /\ \A c \in DOMAIN accounts :
           ~accounts[c].locked =>
               TotalOf(accounts, c) =
                   SumAmounts(transactions, RecordsOfKind(transactions, c, TRUE))
                   - SumAmounts(transactions, RecordsOfKind(transactions, c, FALSE))
    /\ \A c \in Clients, t \in Txs :
           LET d == ProcessDispute(accounts, transactions, c, t)
               r == ProcessResolve(accounts, transactions, c, t)
           IN \A k \in DOMAIN accounts :
                  /\ TotalOf(d.accounts, k) = TotalOf(accounts, k)
                  /\ TotalOf(r.accounts, k) = TotalOf(accounts, k)

\* A client deposited, withdrew a smaller amount and then had the deposit
\* disputed: the total is still the difference of the two amounts.
C25_Witness ==
    /\ last.kind = "dispute"
    /\ outcome = "applied"
    /\ ~accounts[last.client_id].locked
    /\ \E w \in RecordsOfKind(transactions, last.client_id, FALSE) :
           /\ transactions[w].amount > 0
           /\ transactions[last.tx].amount > transactions[w].amount
           /\ TotalOf(accounts, last.client_id) =
                  transactions[last.tx].amount - transactions[w].amount

\* C26: an account is locked if and only if exactly one record owned by its
\* client is ChargedBack; no client owns two ChargedBack records, and a
\* client whose account is not locked owns none.
C26_LockedIffOneChargedBack ==
    \A c \in Clients :
        LET n == Cardinality(RecordsWithStatus(transactions, c, "ChargedBack"))
        IN /\ n <= 1
           /\ IsLocked(accounts, c) <=> n = 1
           /\ ~IsLocked(accounts, c) => n = 0

\* A second chargeback, of another Disputed record of a client whose account
\* a first chargeback has locked, was refused.
C26_Witness ==
    /\ last.kind = "chargeback"
    /\ outcome = "locked"
    /\ transactions[last.tx].client_id = last.client_id
    /\ transactions[last.tx].status = "Disputed"
    /\ Cardinality(RecordsWithStatus(transactions, last.client_id, "ChargedBack")) = 1

\* C27: the owner of every record has an account, so no dispute, resolve or
\* chargeback can reach a branch in which the account is missing: one that
\* changes a record's status is the one that updates the account's balances.
C27_ReferentialIntegrity ==
    /\ \A t \in DOMAIN transactions : transactions[t].client_id \in DOMAIN accounts
    /\ \A cmd \in Command :
           LET r == Step(cmd)
           IN /\ r.outcome \notin {"applied_no_account", "no_account"}
              /\ (cmd.kind \in {"dispute", "resolve", "chargeback"}
                      /\ r.transactions # transactions) =>
                     /\ r.outcome = "applied"
                     /\ cmd.client_id \in DOMAIN accounts
                     /\ cmd.client_id = transactions[cmd.tx].client_id

\* A resolve changed a record's status and gave the amount back to the
\* owner's account, while the other client owns a record too.
C27_Witness ==
    /\ last.kind = "resolve"
    /\ outcome = "applied"
    /\ transactions[last.tx].amount > 0
    /\ accounts[last.client_id].available = transactions[last.tx].amount
    /\ accounts[last.client_id].held = 0
    /\ \E t \in DOMAIN transactions : transactions[t].client_id # last.client_id

\* C28: a command changes at most the account of the client it names and at
\* most the record under the tx id it names, and adds no other account or
\* record.
C28_PerCommandFrame ==
    \A cmd \in Command :
        LET r == Step(cmd)
        IN /\ DOMAIN r.accounts \subseteq (DOMAIN accounts) \cup {cmd.client_id}
           /\ DOMAIN r.transactions \subseteq (DOMAIN transactions) \cup {cmd.tx}
           /\ \A c \in DOMAIN accounts :
                  c # cmd.client_id =>
                      (c \in DOMAIN r.accounts /\ r.accounts[c] = accounts[c])
           /\ \A t \in DOMAIN transactions :
                  t # cmd.tx =>
                      (t \in DOMAIN r.transactions
                           /\ r.transactions[t] = transactions[t])

\* A chargeback was applied while another client has an unlocked account with
\* funds held under an open dispute.
C28_Witness ==
    /\ last.kind = "chargeback"
    /\ outcome = "applied"
    /\ \E c \in DOMAIN accounts :
           /\ c # last.client_id
           /\ ~accounts[c].locked
           /\ accounts[c].held > 0
           /\ RecordsWithStatus(transactions, c, "Disputed") # {}

====
